---- MODULE Spec2Model ----
(***************************************************************************)
(* The multithreaded HTTP file server of Lab2/server.py (class HTTPServer) *)
(* as a state machine: the accept loop of start(), one handler thread per  *)
(* admitted connection (handle_client_thread / handle_request), the        *)
(* sliding-window rate limiter (check_rate_limit) and the per-path request *)
(* counter (increment_counter / get_file_counter).                         *)
(*                                                                         *)
(* Time is counted in ticks of half a second, so rate_limit_window = 1.0 s *)
(* is 2 ticks.  time.sleep() only lengthens the interval between two steps *)
(* of a thread; the clock advances independently of the threads (Tick).    *)
(***************************************************************************)
EXTENDS Integers, Sequences, FiniteSets, TLC

\* ---------------------------------------------------------------- bounds
NConn == 4                  \* connections the clients open during one run
MaxTime == 3                \* last tick of the clock

\* ------------------------------------------------------- the configuration
\* The server's parameters, scaled down so that the runs stay finite and small:
\* main() passes max_threads=10 and __init__ sets rate_limit = 5.
max_threads == 2            \* self.max_threads: the admission bound
rate_limit == 2             \* self.rate_limit: requests per window per IP
rate_limit_window == 2      \* self.rate_limit_window = 1.0 s, in half-second ticks

Conns == 1..NConn
Times == 0..MaxTime
IPs == {"ip_a", "ip_b"}
Listener == NConn + 1       \* the accept loop, as a holder of thread_lock

\* ------------------------------------------------- paths and the file system
\* A path is the sequence of its pieces, each "/" or a name.
directory == <<"/", "srv", "/", "public">>      \* self.directory, absolute

P_root == <<"/">>
P_file == <<"/", "a.html">>
P_file_alt == <<"/", "/", "a.html">>                        \* //a.html, the same file
P_missing == <<"/", "missing.pdf">>
P_sub == <<"/", "sub">>
P_sub_file == <<"/", "sub", "/", "file.txt">>
P_sub_htm == <<"/", "sub", "/", "b.htm">>
P_sub_png == <<"/", "sub", "/", "c.png">>
P_sub_pdf == <<"/", "sub", "/", "d.pdf">>
P_sub_upper == <<"/", "sub", "/", "E.HTML">>
P_up == <<"/", "..">>                                       \* /srv
P_up_secret == <<"/", "..", "/", "secret.txt">>             \* /srv/secret.txt
P_up_passwd == <<"/", "..", "/", "..", "/", "etc", "/", "passwd">>      \* /etc/passwd
P_up_enc == <<"/", "%2e%2e", "/", "%2e%2e", "/", "etc", "/", "passwd">>
P_up_missing == <<"/", "..", "/", "..", "/", "etc", "/", "shadow">>

\* the decoded paths the clients ask for
RequestPaths == {P_root, P_file, P_missing}

\* the paths, as they are on the wire, that the clients of SpecServe ask for
ServePaths == RequestPaths \cup {P_file_alt, P_sub, P_sub_file, P_sub_htm, P_sub_png,
                                 P_sub_pdf, P_sub_upper, P_up, P_up_secret, P_up_passwd,
                                 P_up_enc, P_up_missing}

\* the first line of a request, split on white space (line 95): a sequence of tokens
GetLine(p) == <<<<"GET">>, p, <<"HTTP/1.1">>>>
RequestLines ==
    {GetLine(p) : p \in RequestPaths}
        \cup { <<>>,                                        \* a blank first line
               <<<<"GET">>, P_file>>,                       \* no version
               <<<<"POST">>, P_file, <<"HTTP/1.1">>>>,      \* another method
               <<<<"GET">>, P_file, <<"HTTP/1.1">>, <<"x">>>> }  \* a fourth token
\* the keys of self.file_counters that the runs can touch: the decoded paths
\* (P_up_enc decodes to P_up_passwd)
Keys == ServePaths \ {P_up_enc}

ServeLines == RequestLines \cup {GetLine(p) : p \in ServePaths}

\* handle_request's parts before line 95 has run; split() yields no empty token
NoLine == << <<>> >>

VARIABLES
    now,                    \* time.time(), in ticks
    demo_race_condition,    \* self.demo_race_condition
    delay_requests,         \* self.delay_requests
    lpc,                    \* where the accept loop of start() stands
    naccepted,              \* connections accepted so far; the last one is the listener's client_socket
    active_threads,         \* self.active_threads
    thread_lock,            \* self.thread_lock: 0 when free, else its holder
    rate_limit_lock,        \* self.rate_limit_lock: 0 when free, else its holder
    client_requests,        \* self.client_requests: IP -> deque of timestamps
    accepted,               \* history: how often check_rate_limit accepted each timestamp, per IP
    counter_lock,           \* self.counter_lock: 0 when free, else its holder
    file_counters,          \* self.file_counters: path -> count
    inc_done,               \* history: completed increment_counter calls, per path
    conc,                   \* history, per path: "no", "overlap" (two increment_counter calls
                            \* overlapped) or "stale" (one read between the other's read and write)
    pc,                     \* where each handler thread stands
    sock,                   \* each client_socket: "none" (not accepted yet), "open", "closed"
    client_ip,              \* client_address[0] of each connection
    current_time,           \* check_rate_limit's local current_time of each handler
    request_line,           \* handle_request's local parts: the tokens of the first line
    content_type,           \* serve_regular_file's local content_type ("" before line 255)
    path,                   \* handle_request's local path (decoded) of each handler
    current_count,          \* increment_counter's local current_count of each handler
    todo,                   \* generate_directory_listing: link paths of the files still to be listed
    shown,                  \* generate_directory_listing: the request counts put into the listing
    sent                    \* status codes of the responses written to each socket

cfgv == <<demo_race_condition, delay_requests>>
lsnv == <<lpc, naccepted>>
admv == <<active_threads, thread_lock>>
rlv == <<rate_limit_lock, client_requests, accepted>>
ctrv == <<counter_lock, file_counters, inc_done, conc>>
locv == <<current_time, request_line, content_type, path, current_count, todo, shown>>
vars == <<now, cfgv, lsnv, admv, rlv, ctrv, pc, sock, client_ip, locv, sent>>

\* ------------------------------------------------------------ pure helpers
\* pruning that also drops the entries exactly one window old
RECURSIVE PruneInclusive(_, _)
PruneInclusive(dq, t) ==
    IF dq # <<>> /\ t - Head(dq) >= rate_limit_window
    THEN PruneInclusive(Tail(dq), t)
    ELSE dq

\* check_rate_limit, lines 126-127: popleft while the oldest entry is older than the window
RECURSIVE Prune(_, _)
Prune(dq, t) ==
    IF dq # <<>> /\ t - Head(dq) > rate_limit_window
    THEN Prune(Tail(dq), t)
    ELSE dq

\* check_rate_limit, line 130: the admission decision on the pruned deque
UnderLimit(dq) == ~(Len(dq) >= rate_limit)

\* the admission test with the bound off by one
HasSlotInclusive == active_threads <= max_threads

\* line 49: the admission test
HasSlot == active_threads < max_threads

\* ---------------------------------------------------- serve_file's path logic
\* the file system: directories and regular files, by their names from "/"
FSDirs == { <<>>, <<"etc">>, <<"srv">>, <<"srv", "public">>, <<"srv", "public", "sub">> }
FSFiles == { <<"srv", "public", "a.html">>, <<"srv", "public", "sub", "file.txt">>,
             <<"srv", "public", "sub", "b.htm">>, <<"srv", "public", "sub", "c.png">>,
             <<"srv", "public", "sub", "d.pdf">>, <<"srv", "public", "sub", "E.HTML">>,
             <<"srv", "secret.txt">>, <<"etc", "passwd">> }

\* str.lstrip('/'), line 157
RECURSIVE LStrip(_)
LStrip(p) == IF p # <<>> /\ Head(p) = "/" THEN LStrip(Tail(p)) ELSE p

\* lines 154-157: '/' becomes '', any other path loses its leading slashes
UrlPath(p) == IF p = <<"/">> THEN <<>> ELSE LStrip(p)

\* os.path.join of two paths
Join(a, b) ==
    IF b # <<>> /\ Head(b) = "/" THEN b
    ELSE IF a # <<>> /\ a[Len(a)] = "/" THEN a \o b
    ELSE a \o <<"/">> \o b

\* str.startswith, line 161
StartsWith(s, pre) == Len(s) >= Len(pre) /\ SubSeq(s, 1, Len(pre)) = pre

\* what the operating system finds at a path: it walks the pieces from "/", and
\* every piece but the last must lead to a directory
RECURSIVE Walk(_, _)
Walk(cur, rest) ==
    IF rest = <<>> THEN cur
    ELSE IF cur \notin FSDirs THEN <<"?">>
    ELSE IF Head(rest) \in {"/", "."} THEN Walk(cur, Tail(rest))
    ELSE IF Head(rest) = ".."
         THEN Walk(IF cur = <<>> THEN cur ELSE SubSeq(cur, 1, Len(cur) - 1), Tail(rest))
    ELSE Walk(Append(cur, Head(rest)), Tail(rest))

Exists(full) == Walk(<<>>, full) \in FSDirs \cup FSFiles      \* os.path.exists
IsDir(full) == Walk(<<>>, full) \in FSDirs                    \* os.path.isdir

\* serve_file, lines 153-172: which branch a decoded path takes
FullPath(p) == Join(directory, UrlPath(p))
Classify(p) ==
    IF ~StartsWith(FullPath(p), directory) THEN "Forbidden"
    ELSE IF ~Exists(FullPath(p)) THEN "NotFound"
    ELSE IF IsDir(FullPath(p)) THEN "Directory"
    ELSE "File"

\* os.listdir, sorted (lines 176-177): the names in a directory
ListDir(full) ==
    LET d == Walk(<<>>, full)
        sorted == <<"E.HTML", "a.html", "b.htm", "c.png", "d.pdf", "etc", "file.txt", "passwd",
                    "public", "secret.txt", "srv", "sub">>
        names == { n \in {sorted[i] : i \in 1..Len(sorted)} :
                      Append(d, n) \in FSDirs \cup FSFiles }
        Pos(n) == CHOOSE i \in 1..Len(sorted) : sorted[i] = n
    IN  [i \in 1..Cardinality(names) |->
            CHOOSE n \in names : Cardinality({m \in names : Pos(m) < Pos(n)}) = i - 1]

\* generate_directory_listing, lines 217-233: the counter keys of the regular files
\* of a listing, in listing order
LinkPath(url_path, file) ==
    IF url_path # <<>> THEN <<"/">> \o url_path \o <<"/", file>> ELSE <<"/", file>>
RECURSIVE FileLinks(_, _)
FileLinks(url_path, files) ==
    IF files = <<>> THEN <<>>
    ELSE LET rest == FileLinks(url_path, Tail(files))
         IN  IF IsDir(Join(Join(directory, url_path), <<Head(files)>>))
             THEN rest
             ELSE <<LinkPath(url_path, Head(files))>> \o rest

\* ------------------------------------------------------------------- Init
\* the state after __init__ (lines 12-33), but for the two flags that main() sets
\* from the command line (lines 327-332)
Constructed ==
    /\ now = 0
    /\ lpc = "accept"
    /\ naccepted = 0
    /\ active_threads = 0
    /\ thread_lock = 0
    /\ rate_limit_lock = 0
    /\ client_requests = [i \in IPs |-> <<>>]
    /\ accepted = [i \in IPs |-> [t \in Times |-> 0]]
    /\ counter_lock = 0
    /\ file_counters = [k \in Keys |-> 0]
    /\ inc_done = [k \in Keys |-> 0]
    /\ conc = [k \in Keys |-> "no"]
    /\ pc = [c \in Conns |-> "none"]
    /\ sock = [c \in Conns |-> "none"]
    /\ client_ip = [c \in Conns |-> "ip_a"]
    /\ current_time = [c \in Conns |-> 0]
    /\ request_line = [c \in Conns |-> NoLine]
    /\ content_type = [c \in Conns |-> ""]
    /\ path = [c \in Conns |-> P_root]
    /\ current_count = [c \in Conns |-> 0]
    /\ todo = [c \in Conns |-> <<>>]
    /\ shown = [c \in Conns |-> <<>>]
    /\ sent = [c \in Conns |-> <<>>]

\* python server.py
Init ==
    /\ Constructed
    /\ demo_race_condition = FALSE
    /\ delay_requests = TRUE

\* python server.py --no-delay, with or without --demo-race
InitCount ==
    /\ Constructed
    /\ demo_race_condition \in BOOLEAN
    /\ delay_requests = FALSE

\* --------------------------------------------------------------- the clock
\* a clock whose tick ends the wait of the handlers blocked in recv
TickTimingOut ==
    /\ now < MaxTime
    /\ now' = now + 1
    /\ pc' = [c \in Conns |-> IF pc[c] = "recv" THEN "close" ELSE pc[c]]
    /\ UNCHANGED <<cfgv, lsnv, admv, rlv, ctrv, sock, client_ip, locv, sent>>

Tick ==
    /\ now < MaxTime
    /\ now' = now + 1
    /\ UNCHANGED <<cfgv, lsnv, admv, rlv, ctrv, pc, sock, client_ip, locv, sent>>

\* ------------------------------------------------------- start(): accept loop
\* line 45: accept() returns the next connection
Accept(ip) ==
    /\ lpc = "accept"
    /\ naccepted < NConn
    /\ naccepted' = naccepted + 1
    /\ sock' = [sock EXCEPT ![naccepted + 1] = "open"]
    /\ client_ip' = [client_ip EXCEPT ![naccepted + 1] = ip]
    /\ lpc' = "lock"
    /\ UNCHANGED <<now, cfgv, admv, rlv, ctrv, pc, locv, sent>>

\* line 48: with self.thread_lock
ListenerLock ==
    /\ lpc = "lock"
    /\ thread_lock = 0
    /\ thread_lock' = Listener
    /\ lpc' = "check"
    /\ UNCHANGED <<now, cfgv, naccepted, active_threads, rlv, ctrv, pc, sock, client_ip, locv, sent>>

\* lines 49-55: a slot is free, the handler thread is started
Spawn ==
    /\ lpc = "check"
    /\ HasSlot
    /\ pc' = [pc EXCEPT ![naccepted] = "start"]
    /\ lpc' = "count"
    /\ UNCHANGED <<now, cfgv, naccepted, admv, rlv, ctrv, sock, client_ip, locv, sent>>

\* lines 56-57: the count is incremented and the lock released
Count ==
    /\ lpc = "count"
    /\ active_threads' = active_threads + 1
    /\ thread_lock' = 0
    /\ lpc' = "accept"
    /\ UNCHANGED <<now, cfgv, naccepted, rlv, ctrv, pc, sock, client_ip, locv, sent>>

\* a rejection that answers 429 before it closes the connection
RejectAnswering(closeOK) ==
    /\ lpc = "check"
    /\ ~HasSlot
    /\ sent' = [sent EXCEPT ![naccepted] = Append(@, 429)]
    /\ sock' = [sock EXCEPT ![naccepted] = "closed"]
    /\ thread_lock' = 0
    /\ lpc' = IF closeOK THEN "accept" ELSE "stopped"
    /\ UNCHANGED <<now, cfgv, naccepted, active_threads, rlv, ctrv, pc, client_ip, locv>>

\* a rejection that counts the rejected connection as a running handler
RejectCounting(closeOK) ==
    /\ lpc = "check"
    /\ ~HasSlot
    /\ sock' = [sock EXCEPT ![naccepted] = "closed"]
    /\ active_threads' = active_threads + 1
    /\ thread_lock' = 0
    /\ lpc' = IF closeOK THEN "accept" ELSE "stopped"
    /\ UNCHANGED <<now, cfgv, naccepted, rlv, ctrv, pc, client_ip, locv, sent>>

\* lines 58-60: no slot, the connection is closed; should close() raise OSError the
\* loop is left through "except Exception" (line 64) and the server stops
Reject(closeOK) ==
    /\ lpc = "check"
    /\ ~HasSlot
    /\ sock' = [sock EXCEPT ![naccepted] = "closed"]
    /\ thread_lock' = 0
    /\ lpc' = IF closeOK THEN "accept" ELSE "stopped"
    /\ UNCHANGED <<now, cfgv, naccepted, active_threads, rlv, ctrv, pc, client_ip, locv, sent>>

\* ------------------------------------------ handle_request: the rate limiter
\* lines 81 and 121: after the sleep, check_rate_limit reads the clock, outside the lock
ReadTime(c) ==
    /\ pc[c] = "start"
    /\ current_time' = [current_time EXCEPT ![c] = now]
    /\ pc' = [pc EXCEPT ![c] = "rl_lock"]
    /\ UNCHANGED <<now, cfgv, lsnv, admv, rlv, ctrv, sock, client_ip, request_line,
                   content_type, path,
                   current_count, todo, shown, sent>>

\* line 123: with self.rate_limit_lock
RateLimitLock(c) ==
    /\ pc[c] = "rl_lock"
    /\ rate_limit_lock = 0
    /\ rate_limit_lock' = c
    /\ pc' = [pc EXCEPT ![c] = "rl_check"]
    /\ UNCHANGED <<now, cfgv, lsnv, admv, client_requests, accepted, ctrv, sock, client_ip,
                   locv, sent>>

\* the responses on a socket after one more send, which the peer receives or not
AfterSend(c, code, ok) == IF ok THEN [sent EXCEPT ![c] = Append(@, code)] ELSE sent

\* check_rate_limit recording the timestamp of a rejected call too
CheckRateLimitRecording(c, sendOK) ==
    /\ pc[c] = "rl_check"
    /\ rate_limit_lock = c
    /\ LET ip == client_ip[c]
           t == current_time[c]
           dq == Prune(client_requests[ip], t)
       IN  /\ client_requests' = [client_requests EXCEPT ![ip] = Append(dq, t)]
           /\ IF UnderLimit(dq)
              THEN /\ accepted' = [accepted EXCEPT ![ip][t] = @ + 1]
                   /\ pc' = [pc EXCEPT ![c] = "recv"]
                   /\ sent' = sent
              ELSE /\ accepted' = accepted
                   /\ pc' = [pc EXCEPT ![c] = "close"]
                   /\ sent' = AfterSend(c, 429, sendOK)
    /\ rate_limit_lock' = 0
    /\ UNCHANGED <<now, cfgv, lsnv, admv, ctrv, sock, client_ip, locv>>

\* check_rate_limit whose rejection is answered 429 without the return of line 84
CheckRateLimitNoReturn(c, sendOK) ==
    /\ pc[c] = "rl_check"
    /\ rate_limit_lock = c
    /\ LET ip == client_ip[c]
           t == current_time[c]
           dq == Prune(client_requests[ip], t)
       IN  IF UnderLimit(dq)
           THEN /\ client_requests' = [client_requests EXCEPT ![ip] = Append(dq, t)]
                /\ accepted' = [accepted EXCEPT ![ip][t] = @ + 1]
                /\ sent' = sent
           ELSE /\ client_requests' = [client_requests EXCEPT ![ip] = dq]
                /\ accepted' = accepted
                /\ sent' = AfterSend(c, 429, sendOK)
    /\ pc' = [pc EXCEPT ![c] = "recv"]
    /\ rate_limit_lock' = 0
    /\ UNCHANGED <<now, cfgv, lsnv, admv, ctrv, sock, client_ip, locv>>

\* check_rate_limit keeping one window for all the addresses together
CheckRateLimitShared(c, sendOK) ==
    /\ pc[c] = "rl_check"
    /\ rate_limit_lock = c
    /\ LET ip == "ip_a"
           t == current_time[c]
           dq == Prune(client_requests[ip], t)
       IN  IF UnderLimit(dq)
           THEN /\ client_requests' = [client_requests EXCEPT ![ip] = Append(dq, t)]
                /\ accepted' = [accepted EXCEPT ![client_ip[c]][t] = @ + 1]
                /\ pc' = [pc EXCEPT ![c] = "recv"]
                /\ sent' = sent
           ELSE /\ client_requests' = [client_requests EXCEPT ![ip] = dq]
                /\ accepted' = accepted
                /\ pc' = [pc EXCEPT ![c] = "close"]
                /\ sent' = AfterSend(c, 429, sendOK)
    /\ rate_limit_lock' = 0
    /\ UNCHANGED <<now, cfgv, lsnv, admv, ctrv, sock, client_ip, locv>>

\* check_rate_limit returning False with rate_limit_lock still held
CheckRateLimitKeepingLock(c, sendOK) ==
    /\ pc[c] = "rl_check"
    /\ rate_limit_lock = c
    /\ LET ip == client_ip[c]
           t == current_time[c]
           dq == Prune(client_requests[ip], t)
       IN  IF UnderLimit(dq)
           THEN /\ client_requests' = [client_requests EXCEPT ![ip] = Append(dq, t)]
                /\ accepted' = [accepted EXCEPT ![ip][t] = @ + 1]
                /\ pc' = [pc EXCEPT ![c] = "recv"]
                /\ sent' = sent
                /\ rate_limit_lock' = 0
           ELSE /\ client_requests' = [client_requests EXCEPT ![ip] = dq]
                /\ accepted' = accepted
                /\ pc' = [pc EXCEPT ![c] = "close"]
                /\ sent' = AfterSend(c, 429, sendOK)
                /\ rate_limit_lock' = rate_limit_lock
    /\ UNCHANGED <<now, cfgv, lsnv, admv, ctrv, sock, client_ip, locv>>

\* lines 125-135 under the lock, then lines 82-84: prune, decide, record; a rejected
\* client is sent 429 and the handler returns
CheckRateLimit(c, sendOK) ==
    /\ pc[c] = "rl_check"
    /\ rate_limit_lock = c
    /\ LET ip == client_ip[c]
           t == current_time[c]
           dq == Prune(client_requests[ip], t)
       IN  IF UnderLimit(dq)
           THEN /\ client_requests' = [client_requests EXCEPT ![ip] = Append(dq, t)]
                /\ accepted' = [accepted EXCEPT ![ip][t] = @ + 1]
                /\ pc' = [pc EXCEPT ![c] = "recv"]
                /\ sent' = sent
           ELSE /\ client_requests' = [client_requests EXCEPT ![ip] = dq]
                /\ accepted' = accepted
                /\ pc' = [pc EXCEPT ![c] = "close"]
                /\ sent' = AfterSend(c, 429, sendOK)
    /\ rate_limit_lock' = 0
    /\ UNCHANGED <<now, cfgv, lsnv, admv, ctrv, sock, client_ip, locv>>

\* ------------------------------------- handle_request: reading the request
\* lines 86-88: recv returns no bytes, the peer has closed; the handler returns
RecvNothing(c) ==
    /\ pc[c] = "recv"
    /\ pc' = [pc EXCEPT ![c] = "close"]
    /\ UNCHANGED <<now, cfgv, lsnv, admv, rlv, ctrv, sock, client_ip, locv, sent>>

\* an exception of recv that is answered 500 and then ends the accept loop as well
RecvErrorEscalating(c, sendOK) ==
    /\ pc[c] = "recv"
    /\ pc' = [pc EXCEPT ![c] = "close"]
    /\ sent' = AfterSend(c, 500, sendOK)
    /\ lpc' = "stopped"
    /\ UNCHANGED <<now, cfgv, naccepted, admv, rlv, ctrv, sock, client_ip, locv>>

\* lines 86 and 116-118: recv or decode raises; the handler answers 500
RecvError(c, sendOK) ==
    /\ pc[c] = "recv"
    /\ pc' = [pc EXCEPT ![c] = "close"]
    /\ sent' = AfterSend(c, 500, sendOK)
    /\ UNCHANGED <<now, cfgv, lsnv, admv, rlv, ctrv, sock, client_ip, locv>>

\* urllib.parse.unquote, line 106: the percent escapes of a path decoded
Unquote(p) ==
    [i \in 1..Len(p) |-> IF p[i] = "%2e%2e" THEN ".." ELSE IF p[i] = "%2f" THEN "/" ELSE p[i]]

\* lines 94-106: what the first line of a request leads to
ParseOutcome(parts) ==
    IF Len(parts) < 3 THEN 400
    ELSE IF Len(parts) # 3 THEN 500          \* line 100: the unpacking raises ValueError
    ELSE IF parts[1] # <<"GET">> THEN 405
    ELSE 0

\* lines 86-110: a request arrives and its first line is parsed
Recv(c, parts, sendOK) ==
    /\ pc[c] = "recv"
    /\ IF ParseOutcome(parts) # 0
       THEN /\ sent' = AfterSend(c, ParseOutcome(parts), sendOK)
            /\ pc' = [pc EXCEPT ![c] = "close"]
            /\ path' = path
       ELSE /\ sent' = sent
            /\ path' = [path EXCEPT ![c] = Unquote(parts[2])]
            /\ pc' = [pc EXCEPT ![c] = IF delay_requests THEN "delay" ELSE "serve"]
    /\ request_line' = [request_line EXCEPT ![c] = parts]
    /\ content_type' = content_type
    /\ UNCHANGED <<now, cfgv, lsnv, admv, rlv, ctrv, sock, client_ip, current_time,
                   current_count, todo, shown>>

\* lines 108-110: the simulated work
Delay(c) ==
    /\ pc[c] = "delay"
    /\ pc' = [pc EXCEPT ![c] = "serve"]
    /\ UNCHANGED <<now, cfgv, lsnv, admv, rlv, ctrv, sock, client_ip, locv, sent>>

\* --------------------------------------------------- serve_file and its callees
\* the handlers that are inside increment_counter
InIncrement == {"inc", "inc_read", "inc_write"}

\* history: handler c calls increment_counter(p) while another call on p is under way
ConcAtCall(c, p) ==
    IF conc[p] = "no" /\ \E d \in Conns \ {c} : pc[d] \in InIncrement /\ path[d] = p
    THEN [conc EXCEPT ![p] = "overlap"]
    ELSE conc

\* send_error, lines 284-293: the reason phrase of a status code
StatusMessage(code) ==
    CASE code = 400 -> "Bad Request"
      [] code = 403 -> "Forbidden"
      [] code = 404 -> "Not Found"
      [] code = 405 -> "Method Not Allowed"
      [] code = 429 -> "Too Many Requests"
      [] code = 500 -> "Internal Server Error"
      [] OTHER -> "Unknown Error"

\* send_error, lines 294-309: the fixed envelope of an error response
ErrorEnvelope(code, message) ==
    [ status_line |-> <<"HTTP/1.1", code, StatusMessage(code)>>,
      content_type |-> "text/html",
      title |-> <<code, StatusMessage(code)>>,
      h1 |-> <<code, StatusMessage(code)>>,
      p |-> message ]

\* a missing path answered as if it were forbidden
ServeErrorForbidden(c, sendOK) ==
    /\ pc[c] = "serve"
    /\ Classify(path[c]) \in {"Forbidden", "NotFound"}
    /\ sent' = AfterSend(c, 403, sendOK)
    /\ pc' = [pc EXCEPT ![c] = "inc"]
    /\ conc' = ConcAtCall(c, path[c])
    /\ UNCHANGED <<now, cfgv, lsnv, admv, rlv, counter_lock, file_counters, inc_done,
                   sock, client_ip, locv>>

\* lines 161-167 then 114: Forbidden and NotFound are answered by send_error;
\* handle_request goes on to increment_counter
ServeError(c, sendOK) ==
    /\ pc[c] = "serve"
    /\ Classify(path[c]) \in {"Forbidden", "NotFound"}
    /\ sent' = AfterSend(c, IF Classify(path[c]) = "Forbidden" THEN 403 ELSE 404, sendOK)
    /\ pc' = [pc EXCEPT ![c] = "inc"]
    /\ conc' = ConcAtCall(c, path[c])
    /\ UNCHANGED <<now, cfgv, lsnv, admv, rlv, counter_lock, file_counters, inc_done,
                   sock, client_ip, locv>>

\* os.path.splitext(file_path)[1], line 254: the extension of a file name, by the
\* names of the model's file system (TLC cannot take a string apart)
SplitExt(name) ==
    CASE name \in {"a.html"} -> ".html"
      [] name = "E.HTML" -> ".HTML"
      [] name = "b.htm" -> ".htm"
      [] name = "c.png" -> ".png"
      [] name \in {"d.pdf", "missing.pdf"} -> ".pdf"
      [] name \in {"file.txt", "secret.txt"} -> ".txt"
      [] OTHER -> ""

\* str.lower(), line 254, on the extensions of the model
Lower(ext) == IF ext = ".HTML" THEN ".html" ELSE ext

\* get_content_type, lines 274-280
GetContentType(ext) ==
    CASE ext = ".html" -> "text/html"
      [] ext = ".png" -> "image/png"
      [] ext = ".pdf" -> "application/pdf"
      [] OTHER -> "application/octet-stream"

\* the last piece of a path: the file name
BaseName(p) == p[Len(p)]

\* lines 250-272 then 114: serve_regular_file reads the file and sends the header and
\* the content; an exception at any of the three is answered by send_error(500)
ServeRegularFile(c, readOK, headerOK, contentOK, errorOK) ==
    /\ pc[c] = "serve"
    /\ Classify(path[c]) = "File"
    /\ sent' = IF ~readOK THEN AfterSend(c, 500, errorOK)
               ELSE IF ~headerOK THEN AfterSend(c, 500, errorOK)
               ELSE IF contentOK THEN AfterSend(c, 200, TRUE)
               ELSE [sent EXCEPT ![c] = @ \o (IF errorOK THEN <<200, 500>> ELSE <<200>>)]
    /\ content_type' = [content_type EXCEPT
                           ![c] = GetContentType(Lower(SplitExt(BaseName(path[c]))))]
    /\ pc' = [pc EXCEPT ![c] = "inc"]
    /\ conc' = ConcAtCall(c, path[c])
    /\ UNCHANGED <<now, cfgv, lsnv, admv, rlv, counter_lock, file_counters, inc_done,
                   sock, client_ip, current_time, request_line, path, current_count,
                   todo, shown>>

\* lines 169-170 and 176-179: serve_directory lists the directory; if listdir raises,
\* send_error(500) answers and handle_request goes on to increment_counter
ServeDirectory(c, listOK, errorOK) ==
    /\ pc[c] = "serve"
    /\ Classify(path[c]) = "Directory"
    /\ IF listOK
       THEN /\ todo' = [todo EXCEPT ![c] =
                           FileLinks(UrlPath(path[c]), ListDir(FullPath(path[c])))]
            /\ pc' = [pc EXCEPT ![c] = "list"]
            /\ UNCHANGED <<sent, conc>>
       ELSE /\ sent' = AfterSend(c, 500, errorOK)
            /\ pc' = [pc EXCEPT ![c] = "inc"]
            /\ conc' = ConcAtCall(c, path[c])
            /\ todo' = todo
    /\ UNCHANGED <<now, cfgv, lsnv, admv, rlv, counter_lock, file_counters, inc_done,
                   sock, client_ip, current_time, request_line, content_type, path,
                   current_count, shown>>

\* lines 233 and 150: get_file_counter takes counter_lock for the next file of the listing
ListLock(c) ==
    /\ pc[c] = "list"
    /\ todo[c] # <<>>
    /\ counter_lock = 0
    /\ counter_lock' = c
    /\ pc' = [pc EXCEPT ![c] = "list_read"]
    /\ UNCHANGED <<now, cfgv, lsnv, admv, rlv, file_counters, inc_done, conc, sock,
                   client_ip, locv, sent>>

\* lines 151 and 235: the count is read under the lock and put into the listing
ListRead(c) ==
    /\ pc[c] = "list_read"
    /\ counter_lock = c
    /\ shown' = [shown EXCEPT ![c] = Append(@, file_counters[Head(todo[c])])]
    /\ todo' = [todo EXCEPT ![c] = Tail(@)]
    /\ counter_lock' = 0
    /\ pc' = [pc EXCEPT ![c] = "list"]
    /\ UNCHANGED <<now, cfgv, lsnv, admv, rlv, file_counters, inc_done, conc, sock,
                   client_ip, current_time, request_line, content_type, path, current_count,
                   sent>>

\* lines 181-191 then 114: the listing is sent; if send raises, send_error(500) answers
ListSend(c, sendOK, errorOK) ==
    /\ pc[c] = "list"
    /\ todo[c] = <<>>
    /\ sent' = IF sendOK THEN AfterSend(c, 200, TRUE) ELSE AfterSend(c, 500, errorOK)
    /\ pc' = [pc EXCEPT ![c] = "inc"]
    /\ conc' = ConcAtCall(c, path[c])
    /\ UNCHANGED <<now, cfgv, lsnv, admv, rlv, counter_lock, file_counters, inc_done,
                   sock, client_ip, locv>>

\* ------------------------------------------------------------ increment_counter
\* increment_counter going on without counter_lock in either mode
IncEnterUnlocked(c) ==
    /\ pc[c] = "inc"
    /\ pc' = [pc EXCEPT ![c] = "inc_read"]
    /\ UNCHANGED <<now, cfgv, lsnv, admv, rlv, ctrv, sock, client_ip, locv, sent>>

\* line 145: in synchronized mode the call takes counter_lock; line 139: in the demo
\* mode it only sleeps
IncEnter(c) ==
    /\ pc[c] = "inc"
    /\ demo_race_condition \/ counter_lock = 0
    /\ counter_lock' = IF demo_race_condition THEN counter_lock ELSE c
    /\ pc' = [pc EXCEPT ![c] = "inc_read"]
    /\ UNCHANGED <<now, cfgv, lsnv, admv, rlv, file_counters, inc_done, conc, sock,
                   client_ip, locv, sent>>

\* lines 140 and 146: the count is read
IncRead(c) ==
    /\ pc[c] = "inc_read"
    /\ current_count' = [current_count EXCEPT ![c] = file_counters[path[c]]]
    /\ conc' = IF \E d \in Conns \ {c} : pc[d] = "inc_write" /\ path[d] = path[c]
               THEN [conc EXCEPT ![path[c]] = "stale"]
               ELSE conc
    /\ pc' = [pc EXCEPT ![c] = "inc_write"]
    /\ UNCHANGED <<now, cfgv, lsnv, admv, rlv, counter_lock, file_counters, inc_done,
                   sock, client_ip, current_time, request_line, content_type, path, todo,
                   shown, sent>>

\* a write that stores the count as it was read, without adding one
IncWriteAsRead(c) ==
    /\ pc[c] = "inc_write"
    /\ file_counters' = [file_counters EXCEPT ![path[c]] = current_count[c]]
    /\ inc_done' = [inc_done EXCEPT ![path[c]] = @ + 1]
    /\ counter_lock' = IF counter_lock = c THEN 0 ELSE counter_lock
    /\ pc' = [pc EXCEPT ![c] = "close"]
    /\ UNCHANGED <<now, cfgv, lsnv, admv, rlv, conc, sock, client_ip, locv, sent>>

\* a write that adds one to the count as it is now, not as it was read
IncWriteFresh(c) ==
    /\ pc[c] = "inc_write"
    /\ file_counters' = [file_counters EXCEPT ![path[c]] = @ + 1]
    /\ inc_done' = [inc_done EXCEPT ![path[c]] = @ + 1]
    /\ counter_lock' = IF counter_lock = c THEN 0 ELSE counter_lock
    /\ pc' = [pc EXCEPT ![c] = "close"]
    /\ UNCHANGED <<now, cfgv, lsnv, admv, rlv, conc, sock, client_ip, locv, sent>>

\* lines 142 and 146-147: the count plus one is written, and the lock released if held
IncWrite(c) ==
    /\ pc[c] = "inc_write"
    /\ file_counters' = [file_counters EXCEPT ![path[c]] = current_count[c] + 1]
    /\ inc_done' = [inc_done EXCEPT ![path[c]] = @ + 1]
    /\ counter_lock' = IF counter_lock = c THEN 0 ELSE counter_lock
    /\ pc' = [pc EXCEPT ![c] = "close"]
    /\ UNCHANGED <<now, cfgv, lsnv, admv, rlv, conc, sock, client_ip, locv, sent>>

\* --------------------------------------- handle_client_thread: the finally block
\* the locals of a thread that has ended
Forget(f, c, v) == [f EXCEPT ![c] = v]

\* line 73: the socket is closed; should close() raise OSError the thread ends there,
\* before lines 74-76
Close(c, closeOK) ==
    /\ pc[c] = "close"
    /\ sock' = [sock EXCEPT ![c] = "closed"]
    /\ IF closeOK
       THEN /\ pc' = [pc EXCEPT ![c] = "fin_lock"]
            /\ UNCHANGED <<locv, sent>>
       ELSE /\ pc' = [pc EXCEPT ![c] = "died"]
            /\ current_time' = Forget(current_time, c, 0)
            /\ request_line' = Forget(request_line, c, NoLine)
            /\ content_type' = Forget(content_type, c, "")
            /\ path' = Forget(path, c, P_root)
            /\ current_count' = Forget(current_count, c, 0)
            /\ todo' = Forget(todo, c, <<>>)
            /\ shown' = Forget(shown, c, <<>>)
            /\ sent' = Forget(sent, c, <<>>)
    /\ UNCHANGED <<now, cfgv, lsnv, admv, rlv, ctrv, client_ip>>

\* line 74: with self.thread_lock
FinLock(c) ==
    /\ pc[c] = "fin_lock"
    /\ thread_lock = 0
    /\ thread_lock' = c
    /\ pc' = [pc EXCEPT ![c] = "fin_dec"]
    /\ UNCHANGED <<now, cfgv, lsnv, active_threads, rlv, ctrv, sock, client_ip, locv, sent>>

\* lines 75-76: the count is decremented, the lock released, the thread ends
FinRelease(c) ==
    /\ pc[c] = "fin_dec"
    /\ thread_lock = c
    /\ active_threads' = active_threads - 1
    /\ thread_lock' = 0
    /\ pc' = [pc EXCEPT ![c] = "done"]
    /\ current_time' = Forget(current_time, c, 0)
    /\ request_line' = Forget(request_line, c, NoLine)
    /\ content_type' = Forget(content_type, c, "")
    /\ path' = Forget(path, c, P_root)
    /\ current_count' = Forget(current_count, c, 0)
    /\ todo' = Forget(todo, c, <<>>)
    /\ shown' = Forget(shown, c, <<>>)
    /\ sent' = Forget(sent, c, <<>>)
    /\ UNCHANGED <<now, cfgv, lsnv, rlv, ctrv, sock, client_ip>>

\* ---------------------------------------------------------- the specifications
\* The accept loop.
Listen(ips, closes) ==
    \/ \E ip \in ips : Accept(ip)
    \/ ListenerLock
    \/ Spawn
    \/ Count
    \/ \E ok \in closes : Reject(ok)

\* A handler up to the rate limiter's verdict.
Limit(c, sends) ==
    \/ ReadTime(c)
    \/ RateLimitLock(c)
    \/ \E ok \in sends : CheckRateLimit(c, ok)

\* A handler's finally block.
Finally(c, closes) ==
    \/ \E ok \in closes : Close(c, ok)
    \/ FinLock(c)
    \/ FinRelease(c)

\* increment_counter.
Increment(c) ==
    \/ IncEnter(c)
    \/ IncRead(c)
    \/ IncWrite(c)

\* Spec: one client address, any request line, any failure of the file system and of
\* the sockets, within one tick of the clock.
Next ==
    \/ Listen({"ip_a"}, BOOLEAN)
    \/ \E c \in Conns :
        \/ Limit(c, BOOLEAN)
        \/ RecvNothing(c)
        \/ \E ok \in BOOLEAN : RecvError(c, ok)
        \/ \E parts \in RequestLines, ok \in BOOLEAN : Recv(c, parts, ok)
        \/ Delay(c)
        \/ \E ok \in BOOLEAN : ServeError(c, ok)
        \/ \E r, h, b, e \in BOOLEAN : ServeRegularFile(c, r, h, b, e)
        \/ \E l, e \in BOOLEAN : ServeDirectory(c, l, e)
        \/ ListLock(c)
        \/ ListRead(c)
        \/ \E ok, e \in BOOLEAN : ListSend(c, ok, e)
        \/ Increment(c)
        \/ Finally(c, BOOLEAN)

Spec == Init /\ [][Next]_vars

\* SpecServe: one request, from the moment its connection has been admitted and has
\* passed the rate limiter; any request line, paths below and above the document
\* root; the file system and the sends of a file or listing may fail, the peer stays
\* connected and the sends of send_error succeed.
InitServe ==
    /\ now = 0
    /\ demo_race_condition = FALSE
    /\ delay_requests = TRUE
    /\ lpc = "accept"
    /\ naccepted = 1
    /\ active_threads = 1
    /\ thread_lock = 0
    /\ rate_limit_lock = 0
    /\ client_requests = [i \in IPs |-> IF i = "ip_a" THEN <<0>> ELSE <<>>]
    /\ accepted = [i \in IPs |-> [t \in Times |-> IF i = "ip_a" /\ t = 0 THEN 1 ELSE 0]]
    /\ counter_lock = 0
    /\ file_counters = [k \in Keys |-> 0]
    /\ inc_done = [k \in Keys |-> 0]
    /\ conc = [k \in Keys |-> "no"]
    /\ pc = [c \in Conns |-> IF c = 1 THEN "recv" ELSE "none"]
    /\ sock = [c \in Conns |-> IF c = 1 THEN "open" ELSE "none"]
    /\ client_ip = [c \in Conns |-> "ip_a"]
    /\ current_time = [c \in Conns |-> 0]
    /\ request_line = [c \in Conns |-> NoLine]
    /\ content_type = [c \in Conns |-> ""]
    /\ path = [c \in Conns |-> P_root]
    /\ current_count = [c \in Conns |-> 0]
    /\ todo = [c \in Conns |-> <<>>]
    /\ shown = [c \in Conns |-> <<>>]
    /\ sent = [c \in Conns |-> <<>>]

NextServe ==
    \E c \in Conns :
        \/ RecvError(c, TRUE)
        \/ \E parts \in ServeLines : Recv(c, parts, TRUE)
        \/ Delay(c)
        \/ ServeError(c, TRUE)
        \/ \E r, h, b \in BOOLEAN : ServeRegularFile(c, r, h, b, TRUE)
        \/ \E l \in BOOLEAN : ServeDirectory(c, l, TRUE)
        \/ ListLock(c)
        \/ ListRead(c)
        \/ \E ok \in BOOLEAN : ListSend(c, ok, TRUE)
        \/ Increment(c)
        \/ Finally(c, {TRUE})

SpecServe == InitServe /\ [][NextServe]_vars

\* SpecList: clients of one address that ask for the file, under either spelling,
\* and for the listing of the document root, within one tick of the clock; no input
\* or output fails.
NextList ==
    \/ Listen({"ip_a"}, {TRUE})
    \/ \E c \in Conns :
        \/ Limit(c, {TRUE})
        \/ \E p \in {P_root, P_file, P_file_alt} : Recv(c, GetLine(p), TRUE)
        \/ Delay(c)
        \/ ServeRegularFile(c, TRUE, TRUE, TRUE, TRUE)
        \/ ServeDirectory(c, TRUE, TRUE)
        \/ ListLock(c)
        \/ ListRead(c)
        \/ ListSend(c, TRUE, TRUE)
        \/ Increment(c)
        \/ Finally(c, {TRUE})

SpecList == Init /\ [][NextList]_vars

\* SpecRate: clients of one address that connect and close without a request, while
\* the clock runs; no input or output fails.
NextRate ==
    \/ Tick
    \/ Listen({"ip_a"}, {TRUE})
    \/ \E c \in Conns :
        \/ Limit(c, {TRUE})
        \/ RecvNothing(c)
        \/ Finally(c, {TRUE})

SpecRate == Init /\ [][NextRate]_vars

\* SpecTwo: two clients, of different addresses, that take turns to connect and
\* that close without a request, while the clock runs; no input or output fails.
TurnOf(n) == IF n % 2 = 1 THEN "ip_a" ELSE "ip_b"

NextTwo ==
    \/ Tick
    \/ Listen({TurnOf(naccepted + 1)}, {TRUE})
    \/ \E c \in Conns :
        \/ Limit(c, {TRUE})
        \/ RecvNothing(c)
        \/ Finally(c, {TRUE})

SpecTwo == Init /\ [][NextTwo]_vars

\* SpecSilent: clients of one address that connect and then neither send nor
\* disconnect, while the clock runs.
NextSilent ==
    \/ Tick
    \/ Listen({"ip_a"}, {TRUE})
    \/ \E c \in Conns : Limit(c, {TRUE})

SpecSilent == Init /\ [][NextSilent]_vars

\* SpecCount: clients of two addresses that ask for the file, within one tick of the
\* clock; no input or output fails.
NextCount ==
    \/ Listen(IPs, {TRUE})
    \/ \E c \in Conns :
        \/ Limit(c, {TRUE})
        \/ \E p \in {P_file} : Recv(c, GetLine(p), TRUE)
        \/ ServeRegularFile(c, TRUE, TRUE, TRUE, TRUE)
        \/ Increment(c)
        \/ Finally(c, {TRUE})

SpecCount == InitCount /\ [][NextCount]_vars

\* ===================================================================== claims
\* the handler threads that have been started and have not ended
Running == {c \in Conns : pc[c] \notin {"none", "done", "died"}}

\* no increment_counter call on p is under way
Quiet(p) == \A c \in Conns : ~(pc[c] \in InIncrement /\ path[c] = p)

\* a connection that was accepted and denied a slot
Rejected(c) == pc[c] = "none" /\ sock[c] = "closed"

\* the accept loop takes its step out of the admission test
ListenerDecides == lpc = "check" /\ lpc' # "check"

\* handler c takes the step of check_rate_limit under the lock
Decides(c) == pc[c] = "rl_check" /\ pc'[c] # "rl_check"

\* C1: in synchronized mode, once the concurrent increment_counter calls on a path
\* have all completed, the counter of the path is its initial value (0) plus the
\* number of calls, whatever the interleaving.
C1_SyncCountsEveryCall ==
    ~demo_race_condition =>
        \A p \in Keys : Quiet(p) => file_counters[p] = inc_done[p]

\* C1 witness: three calls on the file, some of them overlapping, have completed.
C1_Witness ==
    /\ ~demo_race_condition
    /\ conc[P_file] = "overlap"
    /\ Quiet(P_file)
    /\ inc_done[P_file] >= 3
    /\ file_counters[P_file] = inc_done[P_file]

\* C2: in the racy demo mode, a run in which one call read the counter between the
\* read and the write of another call on the same path ends, once all calls have
\* completed, with a counter strictly below initial value plus number of calls; such
\* a run exists (the witness).
C2_StaleReadLosesUpdate ==
    demo_race_condition =>
        \A p \in Keys : (conc[p] = "stale" /\ Quiet(p)) => file_counters[p] < inc_done[p]

\* C2 witness: two racy calls interleaved read-read-write-write have completed and
\* the counter is short of the number of calls.
C2_Witness ==
    /\ demo_race_condition
    /\ conc[P_file] = "stale"
    /\ Quiet(P_file)
    /\ inc_done[P_file] >= 2
    /\ file_counters[P_file] < inc_done[P_file]

\* C3: active_threads is always within 0..max_threads, and never more than
\* max_threads handler threads run at the same time.
C3_ActiveWithinBound ==
    /\ active_threads \in 0..max_threads
    /\ Cardinality(Running) <= max_threads

\* C3 witness: the server is full, max_threads handlers run.
C3_Witness ==
    /\ active_threads = max_threads
    /\ Cardinality(Running) = max_threads

\* C4: every admitted handler releases its slot exactly once and closes its socket on
\* every exit path, an exception during the cleanup included: the slots held are those
\* of the running handlers (the one just started is counted at line 56), and the
\* socket of every ended handler is closed.
C4_SlotReleasedOnEveryExit ==
    /\ active_threads + (IF lpc = "count" THEN 1 ELSE 0) = Cardinality(Running)
    /\ \A c \in Conns : pc[c] \in {"done", "died"} => sock[c] = "closed"

\* C5: the accept loop grants a slot, and then increments the count by one, iff the
\* count is strictly below max_threads; at the bound the connection is denied and the
\* count is left unchanged.
C5_GrantIffBelowBound ==
    [][ /\ ListenerDecides =>
            IF active_threads < max_threads
            THEN /\ lpc' = "count"
                 /\ pc'[naccepted] = "start"
                 /\ active_threads' = active_threads
            ELSE /\ active_threads = max_threads
                 /\ lpc' \in {"accept", "stopped"}
                 /\ pc'[naccepted] = "none"
                 /\ active_threads' = active_threads
        /\ (lpc = "count" /\ lpc' # "count") => active_threads' = active_threads + 1
      ]_vars

\* C5 witness: a connection was denied at the bound and, a handler having released
\* its slot, a later connection has been granted one and counted.
C5_Witness ==
    \E c, d \in Conns :
        /\ c < d
        /\ Rejected(c)
        /\ pc[d] \in {"start", "rl_lock"}
        /\ lpc = "accept"
        /\ active_threads = max_threads

\* C6: a connection accepted at the bound is closed at once, with no handler, no
\* response and no change to the rate limiter's windows or the path counters, and
\* it is never served later.
C6_RejectedIsOnlyClosed ==
    [][ /\ (ListenerDecides /\ ~(active_threads < max_threads)) =>
            /\ sock'[naccepted] = "closed"
            /\ pc'[naccepted] = "none"
            /\ sent'[naccepted] = <<>>
            /\ client_requests' = client_requests
            /\ file_counters' = file_counters
        /\ \A c \in Conns : Rejected(c) =>
            /\ pc'[c] = "none"
            /\ sock'[c] = "closed"
            /\ sent'[c] = <<>>
      ]_vars

\* C6 witness: a connection was rejected, the run went on until every handler ended
\* and all connections were accepted; the rejected one was never served.
C6_Witness ==
    \E c \in Conns :
        /\ Rejected(c)
        /\ naccepted = NConn
        /\ Running = {}
        /\ active_threads = 0

\* the accepted timestamps of an address that lie in a..b
RECURSIVE AcceptedIn(_, _, _)
AcceptedIn(ip, a, b) ==
    IF a > b THEN 0
    ELSE (IF a \in Times THEN accepted[ip][a] ELSE 0) + AcceptedIn(ip, a + 1, b)

\* C7: for every address and every interval of length rate_limit_window, at most
\* rate_limit accepted requests have their timestamps in the interval, under any
\* interleaving.
C7_SlidingWindow ==
    \A ip \in IPs : \A a \in Times :
        AcceptedIn(ip, a, a + rate_limit_window) <= rate_limit

\* q copies of t
Full(dq, t) == Len(dq) = rate_limit /\ \A i \in 1..Len(dq) : dq[i] = t

\* C8: when the window of an address holds rate_limit entries, all with timestamp t,
\* a further call with timestamp t2 is rejected if t2 - t <= rate_limit_window and
\* accepted if t2 - t > rate_limit_window.
C8_RejectWithinWindow ==
    [][ \A c \in Conns : \A t \in Times :
            (Decides(c) /\ Full(client_requests[client_ip[c]], t)) =>
                IF current_time[c] - t > rate_limit_window
                THEN pc'[c] = "recv"
                ELSE pc'[c] = "close" /\ sent'[c] = <<429>>
      ]_vars

\* C8 witness: rate_limit calls were accepted at time 0, a call inside the window was
\* answered 429, and a call after the window was accepted, the old entries pruned.
C8_Witness ==
    /\ accepted["ip_a"][0] = rate_limit
    /\ \E c \in Conns : sent[c] = <<429>>
    /\ client_requests["ip_a"] = <<rate_limit_window + 1>>

\* C9: a rejecting call leaves in the window exactly the old entries but a prefix of
\* expired ones, and does not record its timestamp; an accepting call does the same
\* and appends one entry, its own timestamp.
C9_RejectRecordsNothing ==
    [][ \A c \in Conns :
            Decides(c) =>
                LET ip == client_ip[c]
                    t == current_time[c]
                    old == client_requests[ip]
                    new == client_requests'[ip]
                IN  \E k \in 0..Len(old) :
                        /\ \A i \in 1..k : t - old[i] > rate_limit_window
                        /\ IF pc'[c] = "close"
                           THEN new = SubSeq(old, k + 1, Len(old))
                           ELSE new = Append(SubSeq(old, k + 1, Len(old)), t)
      ]_vars

\* C9 witness: a call has been rejected and the window still holds rate_limit
\* entries, none of them the rejected call's own.
C9_Witness ==
    \E c \in Conns :
        /\ pc[c] = "close"
        /\ sent[c] = <<429>>
        /\ current_time[c] = 1
        /\ Full(client_requests[client_ip[c]], 0)

\* C10: right after a check_rate_limit call, every timestamp left in the client's
\* window is no older than the call's current_time minus rate_limit_window, under
\* any interleaving.
C10_WindowFreshAfterPrune ==
    [][ \A c \in Conns :
            Decides(c) =>
                \A i \in 1..Len(client_requests'[client_ip[c]]) :
                    current_time[c] - client_requests'[client_ip[c]][i] <= rate_limit_window
      ]_vars

\* the document root, as the operating system finds it
Root == Walk(<<>>, directory)

\* a decoded request path that the operating system resolves to a place outside the
\* document root
Climbs(p) == ~StartsWith(Walk(<<>>, FullPath(p)), Root)

\* serve_file has returned for the request of handler c
Served(c) == pc[c] = "inc"

Steps(c) == pc'[c] # pc[c]

\* the status codes sent so far on the socket of handler c
Codes(c) == {sent[c][i] : i \in 1..Len(sent[c])}

\* C12: directories are never counted: a request whose path resolves to a directory
\* and which has been answered with a listing leaves every entry of the path counter
\* map unchanged in the steps its handler takes afterwards.
C12_DirectoriesNotCounted ==
    [][\A c \in Conns :
          (Steps(c) /\ pc[c] \in InIncrement /\ Classify(path[c]) = "Directory"
              /\ sent[c] = <<200>>)
          => file_counters' = file_counters]_vars

\* C13: the counter is incremented only after a File response: a request that has
\* been answered 403, 404 or 500 (a failed read or send in serve_regular_file
\* included) leaves every counter unchanged in the steps its handler takes afterwards.
C13_ErrorsNotCounted ==
    [][\A c \in Conns :
          (Steps(c) /\ pc[c] \in InIncrement /\ Codes(c) \cap {403, 404, 500} # {})
          => file_counters' = file_counters]_vars

\* handle_request has returned for handler c and the thread has not ended
Handled(c) == pc[c] \in {"close", "fin_lock", "fin_dec"}

\* C14: on an admitted connection whose peer stays connected, the handler has sent
\* exactly one response (one status line) when handle_request returns, on every
\* path: success, 400, 404, 405, 500 and a failure while a file or listing is
\* produced or sent; never none, never a second one after a first was started.
C14_ExactlyOneResponse ==
    \A c \in Conns : Handled(c) => Len(sent[c]) = 1

\* every connection of the run has been accepted and decided on while no handler
\* thread had ended: the NConn connections are concurrent
AllConcurrent ==
    /\ naccepted = NConn
    /\ lpc \in {"accept", "stopped"}
    /\ \A c \in Conns : pc[c] \notin {"done", "died"}

\* the connections that have been answered 429
Limited == {c \in Conns : 429 \in Codes(c)}

\* C15, as stated: of n connections opened concurrently from one address, at least
\* n - quota are answered 429 (20 - 5 = 15 with the server's configuration).
C15_MostAnswered429 ==
    (AllConcurrent /\ \A c \in Conns : pc[c] = "none" \/ Handled(c))
        => Cardinality(Limited) >= NConn - rate_limit

\* C15, amended: of n connections opened concurrently from one address, exactly
\* n - max_threads are closed at admission without any response (20 - 10 = 10), so
\* that at most max_threads of them are answered 429.
C15_BoundClosesTheRest ==
    AllConcurrent =>
        /\ Cardinality({c \in Conns : Rejected(c)}) = NConn - max_threads
        /\ \A c \in Conns : Rejected(c) => sent[c] = <<>>
        /\ Cardinality(Limited) <= max_threads

\* C15 witness: all connections were opened while no handler had ended, the
\* admitted ones have returned from handle_request, the others were closed.
C15_Witness ==
    /\ AllConcurrent
    /\ \A c \in Conns : Rejected(c) \/ Handled(c)
    /\ Cardinality({c \in Conns : Rejected(c)}) = NConn - max_threads

\* handler c has read a request and split its first line
HasLine(c) == request_line[c] # NoLine

\* C16: a first line of fewer than three tokens is answered 400; one of three or
\* more tokens is no error on account of the tokens: it is answered 405 if the
\* method is not GET, and otherwise the handler goes on to resolve the path.
C16_ThreeOrMoreTokens ==
    \A c \in Conns :
        HasLine(c) =>
            LET line == request_line[c]
            IN  /\ Len(line) < 3 => sent[c] = <<400>>
                /\ (Len(line) >= 3 /\ line[1] # <<"GET">>) => sent[c] = <<405>>
                /\ (Len(line) >= 3 /\ line[1] = <<"GET">>) => path[c] = Unquote(line[2])

\* C17: a handler first awaits its request and then consults the rate limiter: the
\* step of check_rate_limit that answers 429 or records a timestamp is taken only by
\* a handler that has read its request and found a well-formed GET line; so a
\* connection of zero bytes, a malformed line or another method never gets 429 and
\* records nothing in the window.
C17_RequestBeforeLimiter ==
    [][\A c \in Conns :
          Decides(c) => (HasLine(c) /\ ParseOutcome(request_line[c]) = 0)]_vars

\* handler c takes the step of check_rate_limit and the verdict is a rejection
Rejects(c) ==
    Decides(c) /\ ~UnderLimit(Prune(client_requests[client_ip[c]], current_time[c]))

\* C18: a request rejected by the rate limiter is answered 429 (a send that fails
\* is swallowed) and its handler returns: from then on it takes the steps of the
\* finally block only, having read no request, resolved no path, listed or read
\* nothing, slept no delay and changed no path counter.
C18_RejectedDoesNoWork ==
    [][\A c \in Conns :
          /\ Rejects(c) =>
                /\ pc'[c] = "close"
                /\ sent'[c] \in {<<429>>, <<>>}
                /\ file_counters' = file_counters
          /\ (429 \in Codes(c) /\ Steps(c)) =>
                /\ Handled(c)
                /\ ~HasLine(c) /\ todo[c] = <<>> /\ shown[c] = <<>>
                /\ pc'[c] \in {"fin_lock", "fin_dec", "done", "died"}
                /\ file_counters' = file_counters
                /\ inc_done' = inc_done]_vars

\* C18 witness: a handler answered 429 is about to release its slot, and no counter
\* has moved for it.
C18_Witness ==
    \E c \in Conns :
        /\ sent[c] = <<429>>
        /\ pc[c] = "fin_dec"
        /\ ~HasLine(c)

\* handler c takes a step in which an exception is raised and answered 500, or in
\* which close() raises and the thread dies
Fails(c) ==
    /\ Steps(c) /\ pc[c] # "none"
    /\ \/ pc'[c] = "died"
       \/ 500 \notin Codes(c) /\ \E i \in 1..Len(sent'[c]) : sent'[c][i] = 500

\* C19: failure isolation.  No step of a handler, failing or not, touches the accept
\* loop or the state of another handler; a step in which an exception is raised
\* puts at most one 500 on its own connection and leaves the admission count, the
\* locks, the rate limiter's windows and the counters as they were.  So the accept
\* loop is never ended by a handler and goes on accepting.
C19_FailureIsolated ==
    [][\A c \in Conns :
          /\ (Steps(c) /\ pc[c] # "none") =>
                /\ lpc' = lpc /\ naccepted' = naccepted
                /\ \A d \in Conns \ {c} :
                      /\ pc'[d] = pc[d] /\ sock'[d] = sock[d] /\ sent'[d] = sent[d]
                      /\ request_line'[d] = request_line[d] /\ path'[d] = path[d]
                      /\ todo'[d] = todo[d] /\ shown'[d] = shown[d]
                      /\ current_count'[d] = current_count[d]
          /\ Fails(c) =>
                /\ Cardinality({i \in 1..Len(sent'[c]) : sent'[c][i] = 500}) <= 1
                /\ UNCHANGED <<active_threads, thread_lock, rate_limit_lock,
                               client_requests, counter_lock, file_counters>>]_vars

\* C19 witness: one handler has answered 500 to an exception while another, running
\* at the same time, has answered 200, and the accept loop has since taken a
\* further connection.
C19_Witness ==
    \E c, d \in Conns :
        /\ Handled(c) /\ sent[c] = <<500>>
        /\ Handled(d) /\ sent[d] = <<200>>
        /\ lpc = "lock"
        /\ naccepted > c /\ naccepted > d

\* connections have stopped arriving and every handler thread has ended: no step of
\* the server is left to take
Quiescent ==
    /\ naccepted = NConn
    /\ lpc \in {"accept", "stopped"}
    /\ Running = {}

\* C20: every admitted handler terminates with its socket closed and its slot
\* released, on success and on every error path, so that the active count is back at
\* 0 once the connections have stopped arriving and the handlers have ended (from
\* then on nothing can change it any more).
C20_CountReturnsToZero ==
    Quiescent =>
        /\ active_threads = 0
        /\ \A c \in Conns : sock[c] = "closed"

\* the request paths that the operating system resolves to the place f
Spellings(f) == {p \in Keys : Walk(<<>>, FullPath(p)) = f}

\* the completed increment_counter calls on the paths of S, all together
RECURSIVE DoneOn(_)
DoneOn(S) ==
    IF S = {} THEN 0
    ELSE LET p == CHOOSE q \in S : TRUE IN inc_done[p] + DoneOn(S \ {p})

\* C21: the count that a listing shows next to a regular file is the number of
\* GETs of that file served so far, under whatever spelling the requests named it:
\* when get_file_counter reads the count for a link while no request for the file
\* is being counted, the value shown is the number of completed requests for the
\* file.
C21_ListingShowsServedCount ==
    [][\A c \in Conns :
          (pc[c] = "list_read" /\ pc'[c] = "list") =>
              LET file == Walk(<<>>, FullPath(Head(todo[c])))
              IN  (\A p \in Spellings(file) : Quiet(p)) =>
                      shown'[c][Len(shown'[c])] = DoneOn(Spellings(file))]_vars

\* C22: the content type of a served file follows from its lower-cased extension:
\* .html and .htm give text/html, .png image/png, .pdf application/pdf, any other
\* extension application/octet-stream.
C22_ContentTypeByExtension ==
    \A c \in Conns :
        (Served(c) /\ Classify(path[c]) = "File") =>
            LET ext == Lower(SplitExt(BaseName(path[c])))
            IN  content_type[c] =
                    CASE ext \in {".html", ".htm"} -> "text/html"
                      [] ext = ".png" -> "image/png"
                      [] ext = ".pdf" -> "application/pdf"
                      [] OTHER -> "application/octet-stream"

\* the status codes of the spec
StatusCodes == {200, 400, 403, 404, 405, 429, 500}

\* C23: every response carries one of the codes 200, 400, 403, 404, 405, 429, 500,
\* and each code is produced by its request scenario: a line of fewer than three
\* tokens gives 400, another method 405, a path outside the document root 403, a
\* missing path 404, an existing file or directory 200, or 500 if serving it fails.
C23_EveryCodeProduced ==
    \A c \in Conns :
        /\ Codes(c) \subseteq StatusCodes
        /\ (Handled(c) /\ HasLine(c)) =>
              LET line == request_line[c]
              IN  /\ Len(line) < 3 => 400 \in Codes(c)
                  /\ (Len(line) = 3 /\ line[1] # <<"GET">>) => 405 \in Codes(c)
                  /\ (ParseOutcome(line) = 0 /\ Climbs(path[c])) => 403 \in Codes(c)
                  /\ (ParseOutcome(line) = 0 /\ ~Climbs(path[c]) /\ ~Exists(FullPath(path[c])))
                        => 404 \in Codes(c)
                  /\ (ParseOutcome(line) = 0 /\ ~Climbs(path[c]) /\ Exists(FullPath(path[c])))
                        => Codes(c) \cap {200, 500} # {}

\* no response on any socket is a 403 (an invariant of Spec and of SpecServe: the
\* test of line 161 is never true)
Never403 == \A c \in Conns : 403 \notin Codes(c)

\* what the error responses on the socket of handler c look like: every call of
\* send_error passes the reason phrase of its code as the message
ErrorsOn(c) ==
    [i \in {j \in 1..Len(sent[c]) : sent[c][j] # 200} |->
        ErrorEnvelope(sent[c][i], StatusMessage(sent[c][i]))]

\* C24: a well-formed GET, from a client that the rate limiter has let pass, for a
\* path under the document root that does not exist is answered 404 "Not Found" in
\* the fixed error envelope, and that is the only response on the connection.
C24_MissingIs404 ==
    \A c \in Conns :
        (Handled(c) /\ HasLine(c) /\ ParseOutcome(request_line[c]) = 0
            /\ ~Climbs(path[c]) /\ ~Exists(FullPath(path[c])))
        => /\ sent[c] = <<404>>
           /\ ErrorsOn(c)[1].status_line = <<"HTTP/1.1", 404, "Not Found">>
           /\ ErrorsOn(c)[1].h1 = <<404, "Not Found">>
           /\ ErrorsOn(c)[1].content_type = "text/html"

\* C24 witness: the request for /missing.pdf has been answered 404 and its handler
\* has returned.
C24_Witness ==
    \E c \in Conns :
        /\ Handled(c)
        /\ request_line[c] = GetLine(P_missing)
        /\ sent[c] = <<404>>

\* with a call stamped t counted in, the accepted calls of the address ip are fewer
\* than rate_limit in every window of the clock
Polite(ip, t) ==
    \A a \in (0 - rate_limit_window)..MaxTime :
        AcceptedIn(ip, a, a + rate_limit_window)
            + (IF t >= a /\ t <= a + rate_limit_window THEN 1 ELSE 0) < rate_limit

\* no other connection of the address of handler c is before or inside
\* check_rate_limit: the client sends its requests one after another
Alone(c) ==
    \A d \in Conns \ {c} :
        client_ip[d] = client_ip[c] => pc[d] \notin {"start", "rl_lock", "rl_check"}

Reports(c) == pc[c] = "inc_write" /\ pc'[c] # "inc_write"

\* C26: in synchronized mode the counts reported by N concurrent increments of one
\* path are initial + 1, ..., initial + N (initial = 0), each by one handler: the
\* k-th increment to complete writes and reports k.
C26_SyncReportsDistinct ==
    [][\A c \in Conns :
          (Reports(c) /\ ~demo_race_condition) =>
              /\ inc_done'[path[c]] = inc_done[path[c]] + 1
              /\ file_counters'[path[c]] = inc_done'[path[c]]]_vars

\* C26 witness: two overlapping synchronized calls on the file have reported 1 and 2.
C26_Witness ==
    /\ ~demo_race_condition
    /\ conc[P_file] = "overlap"
    /\ \E c, d \in Conns :
          /\ Handled(c) /\ path[c] = P_file /\ current_count[c] = 0
          /\ Handled(d) /\ path[d] = P_file /\ current_count[d] = 1
          /\ file_counters[P_file] = 2

\* C27: in every reachable state the timestamps of each client's window are in
\* non-decreasing order, whatever the interleaving of the check_rate_limit calls
\* for the address, so that pruning from the front removes every expired entry.
C27_WindowInTimeOrder ==
    \A ip \in IPs :
        \A i, j \in 1..Len(client_requests[ip]) :
            i < j => client_requests[ip][i] <= client_requests[ip][j]

\* C28: the rate limiter treats the addresses independently: a check_rate_limit call
\* for one address leaves the window of every other address unchanged, and its
\* verdict and the new window of its address are a function of the window of its
\* own address and of the caller's timestamp alone (so the verdicts an address gets
\* for a given sequence of calls do not depend on the calls of other addresses).
C28_PerAddressIndependent ==
    [][\A c \in Conns :
          Decides(c) =>
              LET ip == client_ip[c]
                  dq == Prune(client_requests[ip], current_time[c])
              IN  /\ \A b \in IPs \ {ip} : client_requests'[b] = client_requests[b]
                  /\ (pc'[c] = "recv") <=> UnderLimit(dq)
                  /\ (pc'[c] # "recv") <=> (pc'[c] = "close" /\ sent'[c] = <<429>>)
                  /\ client_requests'[ip] =
                        IF UnderLimit(dq) THEN Append(dq, current_time[c]) ELSE dq]_vars

\* C28 witness: a call of one address has been rejected, its window being full,
\* while the window of the other address holds one entry and has room.
C28_Witness ==
    \E c \in Conns :
        /\ client_ip[c] = "ip_a"
        /\ sent[c] = <<429>>
        /\ Len(client_requests["ip_a"]) = rate_limit
        /\ Len(client_requests["ip_b"]) = 1

\* the handlers blocked in recv (line 86)
Waiting == {c \in Conns : pc[c] = "recv"}

\* C29: there is no read timeout.  While its peer stays silent a handler blocked in
\* recv stays there, however far the clock advances, with its socket open and its
\* slot held; and once max_threads handlers wait so, every connection accepted
\* afterwards is closed without a response.
C29_SilentPeerHoldsSlot ==
    [][/\ \A c \in Waiting : pc'[c] = "recv" /\ sock'[c] = "open"
       /\ active_threads' + (IF lpc' = "count" THEN 1 ELSE 0) >= Cardinality(Waiting)
       /\ (ListenerDecides /\ Cardinality(Waiting) = max_threads) =>
              /\ pc'[naccepted] = "none"
              /\ sock'[naccepted] = "closed"
              /\ sent'[naccepted] = <<>>]_vars

\* C29 witness: max_threads handlers have been blocked in recv since tick 0, the
\* clock has run to its end, and a later connection has been closed unanswered.
C29_Witness ==
    /\ Cardinality(Waiting) = max_threads
    /\ \A c \in Waiting : current_time[c] = 0
    /\ now = MaxTime
    /\ \E c \in Conns : Rejected(c)

\* every timestamp of the window of ip is older than the window
AllExpired(ip) ==
    \A i \in 1..Len(client_requests[ip]) : now - client_requests[ip][i] > rate_limit_window

\* C30: a client that has stopped sending requests eventually has an empty window:
\* once no connection of its address is left or will come, and all its stored
\* timestamps have expired, its window is empty (nothing but the clock can move
\* from then on, so a window not empty then is never emptied).
C30_IdleWindowEmpties ==
    \A ip \in IPs : (Quiescent /\ AllExpired(ip)) => client_requests[ip] = <<>>

\* C31: in every reachable state the window stored for any client holds at most
\* rate_limit timestamps, however the check_rate_limit calls interleave.
C31_WindowWithinLimit ==
    \A ip \in IPs : Len(client_requests[ip]) <= rate_limit

\* C31 witness: the window of an address is full, one call for it has been answered
\* 429, and another call, which read the clock before, stands at rate_limit_lock.
C31_Witness ==
    \E c, d \in Conns :
        /\ c # d
        /\ client_ip[c] = client_ip[d]
        /\ Len(client_requests[client_ip[c]]) = rate_limit
        /\ sent[c] = <<429>>
        /\ pc[d] = "rl_lock"

\* the handlers that have read the count of p and have not written it yet
Writers(p) == {d \in Conns : pc[d] = "inc_write" /\ path[d] = p}

\* the values a write on p can build on: the count of p and the reads still held
Seen(p) == {file_counters[p]} \cup {current_count[d] : d \in Writers(p)}

Lowest(p) == CHOOSE v \in Seen(p) : \A w \in Seen(p) : v <= w

Highest(p) == CHOOSE v \in Seen(p) : \A w \in Seen(p) : v >= w

\* the paths some handler is on, before or after a step
OnPath == {path[d] : d \in Conns} \cup {path'[d] : d \in Conns}

\* C32: in racy mode, once N >= 1 concurrent increment_counter calls on a path that
\* started from the value c have all completed, the counter lies in c+1 .. c+N.
\* For the calls since the server was constructed (c = 0, N = inc_done) the bounds
\* are stated on every state reached where no call on the path is under way.  For a
\* batch that starts from any later state where none is under way they follow from
\* what every step keeps: the counter changes only when a call completes, which
\* only a handler on the path does; the lowest value a write can build on never
\* falls and the value a completed call leaves is above it (so at least c+1 at the
\* end); the highest such value never rises by more than the number of calls
\* completed meanwhile (so at most c+N).  A path no handler is on has no read
\* held, and its counter stays by the first two facts.
C32_RacyFinalWithinBounds ==
    [][demo_race_condition =>
          /\ \A p \in Keys :
                /\ (inc_done'[p] = inc_done[p]) => file_counters'[p] = file_counters[p]
                /\ (inc_done'[p] # inc_done[p]) => Writers(p) # {}
                /\ (inc_done'[p] >= 1 /\ Quiet(p)') =>
                       /\ file_counters'[p] >= 1
                       /\ file_counters'[p] <= inc_done'[p]
          /\ \A p \in OnPath :
                /\ Lowest(p)' >= Lowest(p)
                /\ (inc_done'[p] # inc_done[p]) => file_counters'[p] >= Lowest(p) + 1
                /\ Highest(p)' - inc_done'[p] <= Highest(p) - inc_done[p]]_vars

\* C32 witness: in racy mode four calls on the file have completed, one of which
\* read 0 before and wrote after the three others, and the counter is 1.
C32_Witness ==
    /\ demo_race_condition
    /\ Quiet(P_file)
    /\ conc[P_file] = "stale"
    /\ inc_done[P_file] = 4
    /\ file_counters[P_file] = 1

\* the number of locks thread t holds
Holds(t) ==
    (IF thread_lock = t THEN 1 ELSE 0) + (IF rate_limit_lock = t THEN 1 ELSE 0)
        + (IF counter_lock = t THEN 1 ELSE 0)

\* the accept loop stands at line 48 and thread_lock is taken
ListenerBlocked == lpc = "lock" /\ thread_lock # 0

\* handler c stands where it takes a lock (lines 123, 145, 150, 74) and the lock is taken
Blocked(c) ==
    \/ pc[c] = "rl_lock" /\ rate_limit_lock # 0
    \/ pc[c] = "inc" /\ ~demo_race_condition /\ counter_lock # 0
    \/ pc[c] = "list" /\ todo[c] # <<>> /\ counter_lock # 0
    \/ pc[c] = "fin_lock" /\ thread_lock # 0

\* C33: no thread ever holds more than one of thread_lock, rate_limit_lock and
\* counter_lock; the holder of a lock stands inside the block the lock guards and
\* its next step is enabled whatever the other threads do (it waits for no lock
\* and no thread); so in no reachable state are the accept loop and all the
\* running handlers blocked on locks.
C33_NoLockDeadlock ==
    /\ \A t \in Conns \cup {Listener} : Holds(t) <= 1
    /\ thread_lock = Listener =>
           /\ lpc \in {"check", "count"}
           /\ ENABLED (Spawn \/ Count \/ Reject(TRUE))
    /\ \A c \in Conns :
           /\ thread_lock = c => (pc[c] = "fin_dec" /\ ENABLED FinRelease(c))
           /\ rate_limit_lock = c =>
                  (pc[c] = "rl_check" /\ ENABLED CheckRateLimit(c, TRUE))
           /\ counter_lock = c =>
                  /\ pc[c] \in {"inc_read", "inc_write", "list_read"}
                  /\ ENABLED (IncRead(c) \/ IncWrite(c) \/ ListRead(c))
    /\ thread_lock \in {0, Listener} \cup Running
    /\ rate_limit_lock \in {0} \cup Running
    /\ counter_lock \in {0} \cup Running
    /\ ~(ListenerBlocked /\ \A c \in Running : Blocked(c))

\* C33 witness: a handler holds thread_lock in its finally block while the accept
\* loop and another handler both wait for it: every thread but the holder is
\* blocked on the lock.
C33_Witness ==
    \E c, d \in Conns :
        /\ c # d
        /\ thread_lock = c
        /\ ListenerBlocked
        /\ Blocked(d)
        /\ Running = {c, d}
====
